---- MODULE Spec2Model ----
\* A model of kthoom's Book (book.js): the loading / binding orchestrator.
\* One Book is modelled together with its environment: the caller (loader calls),
\* the transports (XHR, fetch, FileReader), the BookPump producer and the
\* BookBinder (factory, start(), appendBytes() and its events).
\* Beside it, one MetadataQueryPanel (metadata-query-panel.js) with its user and
\* the lookups it has in flight.
EXTENDS Integers, Sequences, FiniteSets, TLC

\* ---------------------------------------------------------------- bounds

\* How many events the BookPump dispatches in one behaviour.
MaxPumpEvents == 3
\* How many chunks the fetch body reader delivers before it reports done.
MaxFetchChunks == 2
\* How many events the BookBinder dispatches while the loaders are explored.
MaxBinderEvents == 1
\* How many events the BookBinder dispatches while its events are explored.
MaxDeepBinderEvents == 3
\* The largest totalPages a PROGRESS event carries (0 stands for "not provided").
MaxTotal == 2
\* How many times the caller calls setMetadata().
MaxSetMetadata == 2
\* The largest pageNum a PAGE_EXTRACTED event carries.
MaxPageNum == 2
\* How many times the caller calls the public appendBytes() itself.
MaxAppendCalls == 1
\* How many times onQueryChanged() is called on the query panel.
MaxQueries == 2
\* How many onUnchoose listeners the chosen-result checkbox collects.
MaxUnchooseListeners == 2

\* ------------------------------------------------------------ input sets

\* What the constructor's second argument can be.
CtorArgs == {"string", "Request", "File", "Handle", "none"}
\* The ArrayBuffers a source delivers (byte sequences of different lengths).
ChunkSet == {<<1>>, <<2, 1>>}
\* Page objects the BookBinder extracts.
PageSet == {"pA", "pB"}
\* Messages carried by a PROGRESS event.
MessageSet == {"unzipping"}
\* Causes carried by a BOOKPUMP_ERROR event.
CauseSet == {"e1", "e2"}
Loaders == {"load", "loadFromXhr", "loadFromFetch", "loadFromFile",
            "loadFromArrayBuffer", "loadFromBookPump"}
\* What the user types into the query panel's search input.
QuerySet == {"marvel", "dc"}
\* A value that may be undefined, and the string a template, innerHTML or a
\* dataset entry makes of it.
Undefined == [defined |-> FALSE, value |-> ""]
Str(s) == [defined |-> TRUE, value |-> s]
StringOf(v) == IF v.defined THEN v.value ELSE "undefined"

\* The names of the results a lookup returns, in order (Undefined: a result
\* without a name).
ResultLists == {<<>>, <<Str("Marvel")>>, <<Str("Marvel"), Undefined>>,
                <<Undefined, Str("Marvel")>>}
\* The error field of a lookup's response.
ErrorFields == {"OK", "Object Not Found"}

VARIABLES
    \* --- Book fields
    source,           \* which of #uri, #request, #file, #fileHandle are set
    arrayBuffer,      \* #arrayBuffer: [isNull, bytes]
    bookBinder,       \* #bookBinder: "null" or "binder"
    finishedBinding,  \* #finishedBinding
    finishedLoading,  \* #finishedLoading
    needsLoading,     \* #needsLoading
    pages,            \* #pages
    startedBinding,   \* #startedBinding
    totalPages,       \* #totalPages
    \* --- the one #startBookBinding() invocation and the BookBinder
    bindPc,           \* "none", "creating", "starting", "bound", "failed"
    bindErr,          \* why the pipeline's promise rejected ("none" if it did not)
    binderFed,        \* ArrayBuffers handed to the BookBinder, in call order
    binderTransfers,  \* whether the BookBinder transfers the buffers it is handed
    binderBudget,     \* how many events the BookBinder will still dispatch
    \* --- the accepted loader, its transport and its promise
    strategy,         \* "none", "xhr", "fetch", "file", "buffer", "pump"
    loadPc,           \* where the loader's code is suspended
    loadPromise,      \* [state, reason] of the promise the accepted loader returned
    fetchMode,        \* Params['fetchMode']
    bookBinderPromise,\* loadFromBookPump's local: "null", "pending", "fulfilled", "rejected"
    pumpQueue,        \* reactions registered with bookBinderPromise.then(), in order
    pumpListening,    \* DATA_RECEIVED / END listeners are attached to the BookPump
    pumpLog,          \* what the BookPump dispatched so far: [n, types, last]
    \* --- observations
    delivered,        \* the chunks the source delivered to the Book, in order
    processed,        \* the chunks the Book has run its byte handling for, in order
    events,           \* the events the Book dispatched, in order
    lastCall,         \* [op, outcome] of the latest call of a loader or a query
    binderEvt,        \* the latest event the BookBinder dispatched, as it sent it
    \* --- metadata records
    bookMetadata,     \* #bookMetadata: the record the Book refers to, or NullRef
    metaHeap,         \* the BookMetadata records that exist, and what each holds
    metaCalls,        \* how many times setMetadata() was called
    metaArg,          \* the record the latest setMetadata() call was passed
    \* --- the metadata query panel
    panel,            \* the MetadataQueryPanel's fields and those of its elements
    fetching,         \* onQueryChanged() calls suspended in `await fetch(queryURL)`
    parsing,          \* onQueryChanged() calls suspended in `await resp.json()`
    queryCalls,       \* how many times onQueryChanged() was called
    panelCall,        \* [op, arg] of the latest call of a method of the panel
    \* --- the caller's own appendBytes() calls
    appended          \* the ArrayBuffers the caller appended itself, in call order

bookVars == <<source, arrayBuffer, bookBinder, finishedBinding, finishedLoading,
              needsLoading, pages, startedBinding, totalPages>>
bindVars == <<bindPc, bindErr, binderFed, binderTransfers, binderBudget>>
loadVars == <<strategy, loadPc, loadPromise, fetchMode, bookBinderPromise,
              pumpQueue, pumpListening, pumpLog>>
obsVars  == <<delivered, processed, events, lastCall>>
metaVars == <<bookMetadata, metaHeap, metaCalls, metaArg>>
panelVars == <<panel, fetching, parsing, queryCalls, panelCall>>
vars == <<bookVars, bindVars, loadVars, obsVars, metaVars, binderEvt, panelVars, appended>>

\* ------------------------------------------------------------- helpers

RECURSIVE Concat(_)
Concat(chunks) ==
    IF chunks = <<>> THEN <<>> ELSE Head(chunks) \o Concat(Tail(chunks))

Last(seq) == seq[Len(seq)]

IsPrefix(s, t) == Len(s) <= Len(t) /\ SubSeq(t, 1, Len(s)) = s

NullBuffer == [isNull |-> TRUE, bytes |-> <<>>]
Buffer(bytes) == [isNull |-> FALSE, bytes |-> bytes]
\* evt.ab of a pump event: END carries no ArrayBuffer.
NoAb == [has |-> FALSE, bytes |-> <<>>]
Ab(bytes) == [has |-> TRUE, bytes |-> bytes]

Evt(type, page, num) ==
    [type |-> type, page |-> page, num |-> num, message |-> ""]
\* BookProgressEvent(source, totalPages, message)
ProgressEvt(total, message) ==
    [type |-> "progress", page |-> "", num |-> total, message |-> message]
NoEvt == Evt("none", "", -1)
LoadingStarted == Evt("loading-started", "", -1)
LoadingComplete == Evt("loading-complete", "", -1)
BindingComplete == Evt("binding-complete", "", -1)

Pending == [state |-> "pending", reason |-> "none"]
Resolved == [state |-> "resolved", reason |-> "none"]
Rejected(why) == [state |-> "rejected", reason |-> why]

\* A reference to a BookMetadata record: who created it, and its number.
Ref(owner, n) == [owner |-> owner, n |-> n]
NullRef == Ref("null", 0)
\* The record the BookBinder builds and carries in METADATA_XML_EXTRACTED.
BinderRecord == Ref("binder", 1)
\* The records the caller holds and passes to setMetadata().
CallerRecords == {Ref("caller", 1), Ref("caller", 2)}
\* What a record holds: its tags.
MetaValues == {"empty", "tagsA", "tagsB"}

\* Mutant: a File is also kept as the file handle.
ConstructorFileAsHandle(arg) ==
    [uri        |-> arg = "string",
     request    |-> arg = "Request",
     file       |-> arg = "File",
     fileHandle |-> arg \in {"File", "Handle"}]

\* Book.constructor: the four source fields from the constructor's argument.
Constructor(arg) ==
    [uri        |-> arg = "string",
     request    |-> arg = "Request",
     file       |-> arg = "File",
     fileHandle |-> arg = "Handle"]

\* Book.appendBytes: a new buffer holding the old bytes followed by the new
\* ones; while #arrayBuffer is null, this.#arrayBuffer.byteLength throws a
\* TypeError and the field stays null.
appendBytes(buf, appendBuffer) ==
    IF buf.isNull THEN buf ELSE Buffer(buf.bytes \o appendBuffer)

\* What a buffer holds after it was handed to the BookBinder: nothing if the
\* binder transferred it to its worker (a detached ArrayBuffer has byteLength 0).
AfterBinder(bytes) == IF binderTransfers THEN <<>> ELSE bytes

\* ------------------------------------------------- the binding pipeline

\* Mutant: #startBookBinding without its guard.
startBookBindingUnguarded(ab) ==
    IF ~ab.has
    THEN [err |-> "TypeError", startedBinding |-> TRUE,
          arrayBuffer |-> arrayBuffer, bindPc |-> "failed", bindErr |-> "TypeError",
          binderFed |-> binderFed]
    ELSE [err |-> "none", startedBinding |-> TRUE,
          arrayBuffer |-> Buffer(ab.bytes), bindPc |-> "creating", bindErr |-> "none",
          binderFed |-> <<ab.bytes>>]

\* #startBookBinding up to its first await: the guard, the flag, the copy of
\* the initial bytes and the call of createBookBinderAsync(). An async function
\* never throws to its caller: err names the rejection of the promise it returns.
startBookBinding(ab) ==
    IF startedBinding
    THEN [err |-> "DoubleBindError", startedBinding |-> startedBinding,
          arrayBuffer |-> arrayBuffer, bindPc |-> bindPc, bindErr |-> bindErr,
          binderFed |-> binderFed]
    ELSE IF ~ab.has
    THEN \* ab.byteLength on undefined: a TypeError, after the flag was set
         [err |-> "TypeError", startedBinding |-> TRUE,
          arrayBuffer |-> arrayBuffer, bindPc |-> "failed", bindErr |-> "TypeError",
          binderFed |-> binderFed]
    ELSE [err |-> "none", startedBinding |-> TRUE,
          arrayBuffer |-> Buffer(ab.bytes), bindPc |-> "creating", bindErr |-> "none",
          binderFed |-> <<ab.bytes>>]

\* A caller's invocation of #startBookBinding(ab): the state it leaves behind.
EnterBinding(ab) ==
    LET r == startBookBinding(ab) IN
    /\ startedBinding' = r.startedBinding
    /\ arrayBuffer' = r.arrayBuffer
    /\ bindPc' = r.bindPc
    /\ bindErr' = r.bindErr
    /\ binderFed' = r.binderFed

\* The BookBinder's listeners are registered once the factory has resolved.
ListenersRegistered ==
    \/ bindPc \in {"starting", "bound"}
    \/ bindPc = "failed" /\ bindErr = "BinderStartError"

\* ------------------------------------------------------ loader guards

GuardXhr ==
    IF ~needsLoading THEN "InvalidStateError"
    ELSE IF ~source.uri THEN "SourceMismatchError"
    ELSE "ok"

GuardFetch ==
    IF ~needsLoading THEN "InvalidStateError"
    ELSE IF ~source.request THEN "SourceMismatchError"
    ELSE "ok"

GuardFile ==
    IF ~needsLoading THEN "InvalidStateError"
    ELSE IF source.uri THEN "SourceMismatchError"
    ELSE IF ~source.file /\ ~source.fileHandle THEN "SourceMismatchError"
    ELSE "ok"

\* Mutant: loadFromArrayBuffer without its #needsLoading check.
GuardArrayBufferNoLatch ==
    IF source.uri THEN "SourceMismatchError" ELSE "ok"

GuardArrayBuffer ==
    IF ~needsLoading THEN "InvalidStateError"
    ELSE IF source.uri THEN "SourceMismatchError"
    ELSE "ok"

GuardBookPump ==
    IF ~needsLoading THEN "InvalidStateError"
    ELSE IF source.uri THEN "SourceMismatchError"
    ELSE "ok"

\* Mutant: load() does not look at the file handle.
DispatchWithoutHandle ==
    IF source.request THEN "loadFromFetch"
    ELSE IF source.uri THEN "loadFromXhr"
    ELSE IF source.file THEN "loadFromFile"
    ELSE "none"

\* Book.load: the strategy loader it calls, "none" when it throws instead.
Dispatch ==
    IF source.request THEN "loadFromFetch"
    ELSE IF source.uri THEN "loadFromXhr"
    ELSE IF source.file \/ source.fileHandle THEN "loadFromFile"
    ELSE "none"

Guard(loader) ==
    CASE loader = "loadFromXhr" -> GuardXhr
      [] loader = "loadFromFetch" -> GuardFetch
      [] loader = "loadFromFile" -> GuardFile
      [] loader = "loadFromArrayBuffer" -> GuardArrayBuffer
      [] loader = "loadFromBookPump" -> GuardBookPump
      [] OTHER -> "SourceMismatchError"

\* --------------------------------------- loaders: the code past the guards

BeginXhr ==
    /\ needsLoading' = FALSE
    /\ events' = Append(events, LoadingStarted)
    /\ strategy' = "xhr"
    /\ loadPc' = "sent"
    /\ loadPromise' = Pending
    /\ UNCHANGED <<source, arrayBuffer, bookBinder, finishedBinding, finishedLoading,
                   pages, startedBinding, totalPages, bindVars, fetchMode,
                   bookBinderPromise, pumpQueue, pumpListening, pumpLog,
                   delivered, processed>>

BeginFetch ==
    /\ needsLoading' = FALSE
    /\ events' = Append(events, LoadingStarted)
    /\ strategy' = "fetch"
    /\ loadPc' = "fetching"
    /\ loadPromise' = Pending
    /\ UNCHANGED <<source, arrayBuffer, bookBinder, finishedBinding, finishedLoading,
                   pages, startedBinding, totalPages, bindVars, fetchMode,
                   bookBinderPromise, pumpQueue, pumpListening, pumpLog,
                   delivered, processed>>

\* Mutant: loadFromFile leaves #needsLoading alone.
BeginFileStillNeedsLoading ==
    /\ needsLoading' = needsLoading
    /\ strategy' = "file"
    /\ loadPromise' = Pending
    /\ IF source.file
       THEN events' = Append(events, LoadingStarted) /\ loadPc' = "reading"
       ELSE events' = events /\ loadPc' = "getFile"
    /\ UNCHANGED <<source, arrayBuffer, bookBinder, finishedBinding, finishedLoading,
                   pages, startedBinding, totalPages, bindVars, fetchMode,
                   bookBinderPromise, pumpQueue, pumpListening, pumpLog,
                   delivered, processed>>

\* With a File the code runs on to readAsArrayBuffer(); with a handle it
\* suspends in getFile() before LoadingStarted is dispatched.
BeginFile ==
    /\ needsLoading' = FALSE
    /\ strategy' = "file"
    /\ loadPromise' = Pending
    /\ IF source.file
       THEN events' = Append(events, LoadingStarted) /\ loadPc' = "reading"
       ELSE events' = events /\ loadPc' = "getFile"
    /\ UNCHANGED <<source, arrayBuffer, bookBinder, finishedBinding, finishedLoading,
                   pages, startedBinding, totalPages, bindVars, fetchMode,
                   bookBinderPromise, pumpQueue, pumpListening, pumpLog,
                   delivered, processed>>

\* Mutant: loadFromArrayBuffer leaves #needsLoading alone.
BeginArrayBufferStillNeedsLoading(ab) ==
    /\ needsLoading' = needsLoading
    /\ EnterBinding(Ab(ab))
    /\ finishedLoading' = TRUE
    /\ events' = events \o <<LoadingStarted, LoadingComplete>>
    /\ strategy' = "buffer"
    /\ loadPc' = "done"
    /\ loadPromise' = Resolved
    /\ delivered' = Append(delivered, ab)
    /\ processed' = Append(processed, ab)
    /\ UNCHANGED <<source, bookBinder, finishedBinding, pages, totalPages,
                   binderTransfers, binderBudget, fetchMode, bookBinderPromise,
                   pumpQueue, pumpListening, pumpLog>>

\* loadFromArrayBuffer: the flag, LoadingStarted, the pipeline (not awaited),
\* #finishedLoading and LoadingComplete, all before it returns.
BeginArrayBuffer(ab) ==
    /\ needsLoading' = FALSE
    /\ EnterBinding(Ab(ab))
    /\ finishedLoading' = TRUE
    /\ events' = events \o <<LoadingStarted, LoadingComplete>>
    /\ strategy' = "buffer"
    /\ loadPc' = "done"
    /\ loadPromise' = Resolved
    /\ delivered' = Append(delivered, ab)
    /\ processed' = Append(processed, ab)
    /\ UNCHANGED <<source, bookBinder, finishedBinding, pages, totalPages,
                   binderTransfers, binderBudget, fetchMode, bookBinderPromise,
                   pumpQueue, pumpListening, pumpLog>>

\* Mutant: loadFromBookPump clears #needsLoading only once the pump has ended.
BeginBookPumpStillNeedsLoading ==
    /\ needsLoading' = needsLoading
    /\ strategy' = "pump"
    /\ loadPc' = "listening"
    /\ loadPromise' = Pending
    /\ pumpListening' = TRUE
    /\ UNCHANGED <<source, arrayBuffer, bookBinder, finishedBinding, finishedLoading,
                   pages, startedBinding, totalPages, bindVars, fetchMode,
                   bookBinderPromise, pumpQueue, pumpLog,
                   delivered, processed, events>>

\* needsLoading is cleared before the Promise is built and the listeners
\* attached.
BeginBookPump ==
    /\ needsLoading' = FALSE
    /\ strategy' = "pump"
    /\ loadPc' = "listening"
    /\ loadPromise' = Pending
    /\ pumpListening' = TRUE
    /\ UNCHANGED <<source, arrayBuffer, bookBinder, finishedBinding, finishedLoading,
                   pages, startedBinding, totalPages, bindVars, fetchMode,
                   bookBinderPromise, pumpQueue, pumpLog,
                   delivered, processed, events>>

Begin(loader, ab) ==
    CASE loader = "loadFromXhr" -> BeginXhr
      [] loader = "loadFromFetch" -> BeginFetch
      [] loader = "loadFromFile" -> BeginFile
      [] loader = "loadFromArrayBuffer" -> BeginArrayBuffer(ab)
      [] loader = "loadFromBookPump" -> BeginBookPump

\* What a call that ends up in strategy loader `target` reports ("none":
\* Book.load found no source to dispatch on).
Outcome(target) ==
    IF target = "none" THEN "SourceMismatchError"
    ELSE IF Guard(target) = "ok" THEN "accepted"
    ELSE Guard(target)

\* The body of a loader call. A guard that fails throws before anything is
\* assigned.
Call(target, ab) ==
    IF Outcome(target) = "accepted"
    THEN Begin(target, ab)
    ELSE UNCHANGED <<bookVars, bindVars, loadVars,
                     delivered, processed, events>>

\* The caller calls the public appendBytes() itself: the bytes go to the
\* Book only; the BookBinder is not fed and nothing is dispatched.
AppendBytes ==
    /\ Len(appended) < MaxAppendCalls
    /\ \E appendBuffer \in ChunkSet :
         /\ arrayBuffer' = appendBytes(arrayBuffer, appendBuffer)
         /\ appended' = Append(appended, appendBuffer)
    /\ lastCall' = [op |-> "appendBytes",
                    outcome |-> IF arrayBuffer.isNull THEN "TypeError" ELSE "ok"]
    /\ UNCHANGED <<metaVars, binderEvt, panelVars>>
    /\ UNCHANGED <<source, bookBinder, finishedBinding, finishedLoading,
                   needsLoading, pages, startedBinding, totalPages, bindVars,
                   loadVars, delivered, processed, events>>

Load ==
    /\ lastCall' = [op |-> "load", outcome |-> Outcome(Dispatch)]
    /\ Call(Dispatch, <<>>)
    /\ UNCHANGED <<metaVars, binderEvt, panelVars, appended>>

LoadFromXhr ==
    /\ lastCall' = [op |-> "loadFromXhr", outcome |-> Outcome("loadFromXhr")]
    /\ Call("loadFromXhr", <<>>)
    /\ UNCHANGED <<metaVars, binderEvt, panelVars, appended>>

LoadFromFetch ==
    /\ lastCall' = [op |-> "loadFromFetch", outcome |-> Outcome("loadFromFetch")]
    /\ Call("loadFromFetch", <<>>)
    /\ UNCHANGED <<metaVars, binderEvt, panelVars, appended>>

LoadFromFile ==
    /\ lastCall' = [op |-> "loadFromFile", outcome |-> Outcome("loadFromFile")]
    /\ Call("loadFromFile", <<>>)
    /\ UNCHANGED <<metaVars, binderEvt, panelVars, appended>>

LoadFromArrayBuffer ==
    /\ lastCall' = [op |-> "loadFromArrayBuffer",
                    outcome |-> Outcome("loadFromArrayBuffer")]
    /\ \E ab \in ChunkSet : Call("loadFromArrayBuffer", ab)
    /\ UNCHANGED <<metaVars, binderEvt, panelVars, appended>>

LoadFromBookPump ==
    /\ lastCall' = [op |-> "loadFromBookPump", outcome |-> Outcome("loadFromBookPump")]
    /\ Call("loadFromBookPump", <<>>)
    /\ UNCHANGED <<metaVars, binderEvt, panelVars, appended>>

\* ------------------------------------------------------------ XHR

\* xhr.onprogress: only acts once #bookBinder is set.
XhrProgress ==
    /\ strategy = "xhr" /\ loadPc = "sent"
    /\ events' = IF bookBinder # "null"
                 THEN Append(events, Evt("progress", "", Len(pages)))
                 ELSE events
    /\ UNCHANGED <<metaVars, binderEvt, panelVars, appended>>
    /\ UNCHANGED <<bookVars, bindVars, loadVars, delivered, processed, lastCall>>

\* xhr.onload: the promise #startBookBinding returns is dropped.
XhrLoad ==
    /\ strategy = "xhr" /\ loadPc = "sent"
    /\ \E ab \in ChunkSet :
         /\ EnterBinding(Ab(ab))
         /\ delivered' = Append(delivered, ab)
         /\ processed' = Append(processed, ab)
    /\ finishedLoading' = TRUE
    /\ events' = Append(events, LoadingComplete)
    /\ loadPromise' = Resolved
    /\ loadPc' = "done"
    /\ UNCHANGED <<metaVars, binderEvt, panelVars, appended>>
    /\ UNCHANGED <<source, bookBinder, finishedBinding, needsLoading, pages,
                   totalPages, binderTransfers, binderBudget, strategy, fetchMode,
                   bookBinderPromise, pumpQueue, pumpListening, pumpLog,
                   lastCall>>

\* Mutant: a failed transfer re-arms the Book for another load.
XhrErrorRetry ==
    /\ strategy = "xhr" /\ loadPc = "sent"
    /\ loadPromise' = Rejected("TransportError")
    /\ loadPc' = "done"
    /\ needsLoading' = TRUE
    /\ UNCHANGED <<metaVars, binderEvt, panelVars, appended>>
    /\ UNCHANGED <<source, arrayBuffer, bookBinder, finishedBinding,
                   finishedLoading, pages, startedBinding, totalPages, bindVars,
                   strategy, fetchMode, bookBinderPromise, pumpQueue,
                   pumpListening, pumpLog, obsVars>>

\* xhr.onerror
XhrError ==
    /\ strategy = "xhr" /\ loadPc = "sent"
    /\ loadPromise' = Rejected("TransportError")
    /\ loadPc' = "done"
    /\ UNCHANGED <<metaVars, binderEvt, panelVars, appended>>
    /\ UNCHANGED <<bookVars, bindVars, strategy, fetchMode, bookBinderPromise,
                   pumpQueue, pumpListening, pumpLog, obsVars>>

\* ---------------------------------------------------------- fetch

\* fetch() resolved: Params['fetchMode'] decides how the body is read.
FetchResponse ==
    /\ strategy = "fetch" /\ loadPc = "fetching"
    /\ \E mode \in {"chunkByChunk", "other"} :
         /\ fetchMode' = mode
         /\ loadPc' = IF mode = "chunkByChunk" THEN "first" ELSE "body"
    /\ UNCHANGED <<metaVars, binderEvt, panelVars, appended>>
    /\ UNCHANGED <<bookVars, bindVars, strategy, loadPromise, bookBinderPromise,
                   pumpQueue, pumpListening, pumpLog, obsVars>>

\* fetch(), response.arrayBuffer() or reader.read() rejected: the async
\* function's promise rejects.
FetchFail ==
    /\ strategy = "fetch" /\ loadPc \in {"fetching", "body", "first", "reading"}
    /\ loadPromise' = Rejected("TransportError")
    /\ loadPc' = "done"
    /\ UNCHANGED <<metaVars, binderEvt, panelVars, appended>>
    /\ UNCHANGED <<bookVars, bindVars, strategy, fetchMode, bookBinderPromise,
                   pumpQueue, pumpListening, pumpLog, obsVars>>

\* The first bytes of the response (the whole body, or the first chunk):
\* await this.#startBookBinding(...).
FetchFirstBytes ==
    /\ strategy = "fetch" /\ loadPc \in {"body", "first"}
    /\ \E ab \in ChunkSet :
         /\ EnterBinding(Ab(ab))
         /\ delivered' = Append(delivered, ab)
         /\ processed' = Append(processed, ab)
    /\ loadPc' = "awaitBind"
    /\ UNCHANGED <<metaVars, binderEvt, panelVars, appended>>
    /\ UNCHANGED <<source, bookBinder, finishedBinding, finishedLoading,
                   needsLoading, pages, totalPages, binderTransfers, binderBudget,
                   strategy, loadPromise, fetchMode, bookBinderPromise, pumpQueue,
                   pumpListening, pumpLog, events, lastCall>>

\* The reader reports done before any chunk: `Could not get one chunk`.
FetchNoChunk ==
    /\ strategy = "fetch" /\ loadPc = "first"
    /\ loadPromise' = Rejected("NoChunkError")
    /\ loadPc' = "done"
    /\ UNCHANGED <<metaVars, binderEvt, panelVars, appended>>
    /\ UNCHANGED <<bookVars, bindVars, strategy, fetchMode, bookBinderPromise,
                   pumpQueue, pumpListening, pumpLog, obsVars>>

\* One pass of the while loop: Book.appendBytes, then BookBinder.appendBytes.
FetchNextChunk ==
    /\ strategy = "fetch" /\ loadPc = "reading"
    /\ Len(delivered) < MaxFetchChunks
    /\ \E nextChunk \in ChunkSet :
         /\ arrayBuffer' = appendBytes(arrayBuffer, nextChunk)
         /\ binderFed' = Append(binderFed, nextChunk)
         /\ delivered' = Append(delivered, nextChunk)
         /\ processed' = Append(processed, nextChunk)
    /\ UNCHANGED <<metaVars, binderEvt, panelVars, appended>>
    /\ UNCHANGED <<source, bookBinder, finishedBinding, finishedLoading,
                   needsLoading, pages, startedBinding, totalPages, bindPc, bindErr,
                   binderTransfers, binderBudget, loadVars, events,
                   lastCall>>

\* Mutant: the end of the response body also marks the book as bound.
FetchDoneFinishesBinding ==
    /\ strategy = "fetch" /\ loadPc = "reading"
    /\ finishedLoading' = TRUE
    /\ finishedBinding' = TRUE
    /\ events' = Append(events, LoadingComplete)
    /\ loadPromise' = Resolved
    /\ loadPc' = "done"
    /\ UNCHANGED <<metaVars, binderEvt, panelVars, appended>>
    /\ UNCHANGED <<source, arrayBuffer, bookBinder, needsLoading,
                   pages, startedBinding, totalPages, bindVars, strategy, fetchMode,
                   bookBinderPromise, pumpQueue, pumpListening, pumpLog,
                   delivered, processed, lastCall>>

\* The reader reports done: the loop ends, the book has finished loading.
FetchDone ==
    /\ strategy = "fetch" /\ loadPc = "reading"
    /\ finishedLoading' = TRUE
    /\ events' = Append(events, LoadingComplete)
    /\ loadPromise' = Resolved
    /\ loadPc' = "done"
    /\ UNCHANGED <<metaVars, binderEvt, panelVars, appended>>
    /\ UNCHANGED <<source, arrayBuffer, bookBinder, finishedBinding, needsLoading,
                   pages, startedBinding, totalPages, bindVars, strategy, fetchMode,
                   bookBinderPromise, pumpQueue, pumpListening, pumpLog,
                   delivered, processed, lastCall>>

\* ----------------------------------------------------------- file

\* this.#fileHandle.getFile() resolved.
FileHandleResolve ==
    /\ strategy = "file" /\ loadPc = "getFile"
    /\ events' = Append(events, LoadingStarted)
    /\ loadPc' = "reading"
    /\ UNCHANGED <<metaVars, binderEvt, panelVars, appended>>
    /\ UNCHANGED <<bookVars, bindVars, strategy, loadPromise, fetchMode,
                   bookBinderPromise, pumpQueue, pumpListening, pumpLog,
                   delivered, processed, lastCall>>

\* this.#fileHandle.getFile() rejected: the async function's promise rejects.
FileHandleReject ==
    /\ strategy = "file" /\ loadPc = "getFile"
    /\ loadPromise' = Rejected("FileError")
    /\ loadPc' = "done"
    /\ UNCHANGED <<metaVars, binderEvt, panelVars, appended>>
    /\ UNCHANGED <<bookVars, bindVars, strategy, fetchMode, bookBinderPromise,
                   pumpQueue, pumpListening, pumpLog, obsVars>>

\* fr.onload: #startBookBinding never throws to its caller, so the catch is
\* never taken and resolve(this) runs.
FileReaderLoad ==
    /\ strategy = "file" /\ loadPc = "reading"
    /\ \E ab \in ChunkSet :
         /\ EnterBinding(Ab(ab))
         /\ delivered' = Append(delivered, ab)
         /\ processed' = Append(processed, ab)
    /\ finishedLoading' = TRUE
    /\ events' = Append(events, LoadingComplete)
    /\ loadPromise' = Resolved
    /\ loadPc' = "done"
    /\ UNCHANGED <<metaVars, binderEvt, panelVars, appended>>
    /\ UNCHANGED <<source, bookBinder, finishedBinding, needsLoading, pages,
                   totalPages, binderTransfers, binderBudget, strategy, fetchMode,
                   bookBinderPromise, pumpQueue, pumpListening, pumpLog,
                   lastCall>>

\* The FileReader fails: no onerror handler is set, nothing settles the promise.
FileReaderError ==
    /\ strategy = "file" /\ loadPc = "reading"
    /\ loadPc' = "readFailed"
    /\ UNCHANGED <<metaVars, binderEvt, panelVars, appended>>
    /\ UNCHANGED <<bookVars, bindVars, strategy, loadPromise, fetchMode,
                   bookBinderPromise, pumpQueue, pumpListening, pumpLog, obsVars>>

\* ------------------------------------------------------- BookPump

\* The BookPump's record once it has dispatched one more event.
Pumped(log, type, cause) ==
    [n |-> log.n + 1, types |-> log.types \cup {type},
     last |-> [type |-> type, cause |-> cause]]

DataEvt(chunk) == [type |-> "data", ab |-> Ab(chunk)]
EndEvt == [type |-> "end", ab |-> NoAb]

\* The fields a reaction registered with bookBinderPromise.then() can change.
PumpState ==
    [arrayBuffer |-> arrayBuffer, binderFed |-> binderFed,
     finishedLoading |-> finishedLoading, events |-> events,
     loadPromise |-> loadPromise, pumpListening |-> pumpListening,
     processed |-> processed]

\* The reaction's switch: DATA_RECEIVED hands the buffer to the BookBinder and
\* then appends it to the Book; END finishes loading and resolves the promise.
PumpReaction(st, evt) ==
    IF evt.type = "data"
    THEN [st EXCEPT !.binderFed = Append(@, evt.ab.bytes),
                    !.arrayBuffer = appendBytes(@, AfterBinder(evt.ab.bytes)),
                    !.processed = Append(@, evt.ab.bytes)]
    ELSE [st EXCEPT !.finishedLoading = TRUE,
                    !.events = Append(@, LoadingComplete),
                    !.pumpListening = FALSE,
                    !.loadPromise = IF @.state = "pending" THEN Resolved ELSE @]

\* A reaction registered with bookBinderPromise.then(): the event it closes
\* over, and whether the promise had yet to fulfil when it was registered.
Reaction(evt) == [evt |-> evt, waited |-> bookBinderPromise # "fulfilled"]

\* Mutant: of the reactions that wait, the one registered last runs first.
NextReactionLatestFirst(queue) == Len(queue)

\* The reactions of one promise run in the order they were registered: the
\* index of the one that runs next.
NextReaction(queue) == 1

ApplyPumpState(st) ==
    /\ arrayBuffer' = st.arrayBuffer
    /\ binderFed' = st.binderFed
    /\ finishedLoading' = st.finishedLoading
    /\ events' = st.events
    /\ loadPromise' = st.loadPromise
    /\ pumpListening' = st.pumpListening
    /\ processed' = st.processed

\* Mutant: a later event is processed at once, whatever bookBinderPromise's state.
handleBookPumpEventsUnqueued(evt) ==
    IF bookBinderPromise = "null"
    THEN LET r == startBookBinding(evt.ab) IN
         /\ EnterBinding(evt.ab)
         /\ bookBinderPromise' = IF r.err = "none" THEN "pending" ELSE "rejected"
         /\ processed' = IF r.err = "none" THEN Append(processed, evt.ab.bytes)
                         ELSE processed
         /\ UNCHANGED <<finishedLoading, events, loadPromise, pumpListening,
                        pumpQueue>>
    ELSE /\ ApplyPumpState(PumpReaction(PumpState, evt))
         /\ UNCHANGED <<startedBinding, bindPc, bindErr, bookBinderPromise,
                        pumpQueue>>

\* handleBookPumpEvents: the first event of either type enters the binding
\* pipeline with evt.ab; every later one registers a reaction with
\* bookBinderPromise.then() and returns to the BookPump.
handleBookPumpEvents(evt) ==
    IF bookBinderPromise = "null"
    THEN LET r == startBookBinding(evt.ab) IN
         /\ EnterBinding(evt.ab)
         /\ bookBinderPromise' = IF r.err = "none" THEN "pending" ELSE "rejected"
         /\ processed' = IF r.err = "none" THEN Append(processed, evt.ab.bytes)
                         ELSE processed
         /\ UNCHANGED <<finishedLoading, events, loadPromise, pumpListening,
                        pumpQueue>>
    ELSE /\ pumpQueue' = Append(pumpQueue, Reaction(evt))
         /\ UNCHANGED <<startedBinding, arrayBuffer, bindPc, bindErr, binderFed,
                        bookBinderPromise, finishedLoading, events, loadPromise,
                        pumpListening, processed>>

\* The BookPump dispatches an event to the listeners loadFromBookPump attached.
PumpDispatch(evt) ==
    /\ pumpLog.n < MaxPumpEvents
    /\ pumpLog' = Pumped(pumpLog, evt.type, "none")
    /\ IF pumpListening
       THEN /\ handleBookPumpEvents(evt)
            /\ delivered' = IF evt.type = "data" THEN Append(delivered, evt.ab.bytes)
                            ELSE delivered
       ELSE UNCHANGED <<startedBinding, arrayBuffer, bindPc, bindErr, binderFed,
                        bookBinderPromise, finishedLoading, events, loadPromise,
                        pumpListening, pumpQueue, processed, delivered>>
    /\ UNCHANGED <<metaVars, binderEvt, panelVars, appended>>
    /\ UNCHANGED <<source, bookBinder, finishedBinding, needsLoading, pages,
                   totalPages, binderTransfers, binderBudget, strategy, loadPc,
                   fetchMode, lastCall>>

\* A reaction of the fulfilled bookBinderPromise runs, in a microtask of its
\* own: the switch on evt.type.
PumpReactionRuns ==
    /\ strategy = "pump"
    /\ bookBinderPromise = "fulfilled"
    /\ pumpQueue # <<>>
    /\ LET i == NextReaction(pumpQueue) IN
         /\ ApplyPumpState(PumpReaction(PumpState, pumpQueue[i].evt))
         /\ pumpQueue' = SubSeq(pumpQueue, 1, i - 1)
                            \o SubSeq(pumpQueue, i + 1, Len(pumpQueue))
    /\ UNCHANGED <<metaVars, binderEvt, panelVars, appended>>
    /\ UNCHANGED <<source, bookBinder, finishedBinding, needsLoading, pages,
                   startedBinding, totalPages, bindPc, bindErr, binderTransfers,
                   binderBudget, strategy, loadPc, fetchMode, bookBinderPromise,
                   pumpLog, delivered, lastCall>>

\* BookPumpEventType.BOOKPUMP_DATA_RECEIVED
PumpData ==
    /\ strategy = "pump"
    /\ \E chunk \in ChunkSet : PumpDispatch(DataEvt(chunk))

\* BookPumpEventType.BOOKPUMP_END
PumpEnd ==
    /\ strategy = "pump"
    /\ PumpDispatch(EndEvt)

\* Mutant: the error listener is attached only once a chunk has arrived.
PumpErrorAfterFirstChunk ==
    /\ strategy = "pump"
    /\ pumpLog.n < MaxPumpEvents
    /\ \E cause \in CauseSet :
         /\ pumpLog' = Pumped(pumpLog, "error", cause)
         /\ loadPromise' = IF loadPromise.state = "pending"
                              /\ bookBinderPromise # "null"
                           THEN Rejected(cause)
                           ELSE loadPromise
    /\ UNCHANGED <<metaVars, binderEvt, panelVars, appended>>
    /\ UNCHANGED <<bookVars, bindVars, strategy, loadPc, fetchMode,
                   bookBinderPromise, pumpQueue, pumpListening, obsVars>>

\* BOOKPUMP_ERROR: evt => reject(evt.err); this listener is never removed.
PumpError ==
    /\ strategy = "pump"
    /\ pumpLog.n < MaxPumpEvents
    /\ \E cause \in CauseSet :
         /\ pumpLog' = Pumped(pumpLog, "error", cause)
         /\ loadPromise' = IF loadPromise.state = "pending" THEN Rejected(cause)
                           ELSE loadPromise
    /\ UNCHANGED <<metaVars, binderEvt, panelVars, appended>>
    /\ UNCHANGED <<bookVars, bindVars, strategy, loadPc, fetchMode,
                   bookBinderPromise, pumpQueue, pumpListening, obsVars>>

\* ------------------------------- the binding pipeline past its awaits

\* Mutant: #bookBinder is assigned as soon as the factory has resolved.
FactoryResolveAssignsBinder ==
    /\ bindPc = "creating"
    /\ bindPc' = "starting"
    /\ bookBinder' = "binder"
    /\ \E transfers \in BOOLEAN : binderTransfers' = transfers
    /\ bookMetadata' = Ref("book", 0)
    /\ metaHeap' = Ref("book", 0) :> "empty" @@ metaHeap
    /\ UNCHANGED <<source, arrayBuffer, finishedBinding, finishedLoading,
                   needsLoading, pages, startedBinding, totalPages, bindErr,
                   binderFed, binderBudget, loadVars, obsVars, metaCalls, metaArg, binderEvt, panelVars, appended>>

\* createEmptyMetadata(bookType): a new record without tags.
createEmptyMetadata == "empty"

\* Mutant: the pipeline creates the empty record only if the Book has none.
FactoryResolveKeepsMetadata ==
    /\ bindPc = "creating"
    /\ bindPc' = "starting"
    /\ \E transfers \in BOOLEAN : binderTransfers' = transfers
    /\ bookMetadata' = IF bookMetadata = NullRef THEN Ref("book", 0)
                       ELSE bookMetadata
    /\ metaHeap' = IF bookMetadata = NullRef
                   THEN Ref("book", 0) :> createEmptyMetadata @@ metaHeap
                   ELSE metaHeap
    /\ UNCHANGED <<bookVars, bindErr, binderFed, binderBudget, loadVars, obsVars,
                   metaCalls, metaArg, binderEvt, panelVars, appended>>

\* createBookBinderAsync() resolved: #bookMetadata becomes a new empty record,
\* the listeners are registered and bookBinder.start() is called.
FactoryResolve ==
    /\ bindPc = "creating"
    /\ bindPc' = "starting"
    /\ \E transfers \in BOOLEAN : binderTransfers' = transfers
    /\ bookMetadata' = Ref("book", 0)
    /\ metaHeap' = Ref("book", 0) :> createEmptyMetadata @@ metaHeap
    /\ UNCHANGED <<bookVars, bindErr, binderFed, binderBudget, loadVars, obsVars,
                   metaCalls, metaArg, binderEvt, panelVars, appended>>

\* The pipeline's promise rejects: the reactions loadFromBookPump registered
\* with then() never run.
PipelineFails(err) ==
    /\ bindPc' = "failed"
    /\ bindErr' = err
    /\ bookBinderPromise' = IF strategy = "pump" THEN "rejected"
                            ELSE bookBinderPromise
    /\ UNCHANGED <<metaVars, binderEvt, panelVars, appended>>
    /\ UNCHANGED <<bookVars, binderFed, binderTransfers, binderBudget, strategy,
                   loadPc, loadPromise, fetchMode, pumpQueue, pumpListening,
                   pumpLog, obsVars>>

\* createBookBinderAsync() rejected.
FactoryReject ==
    /\ bindPc = "creating"
    /\ PipelineFails("BinderCreationError")

\* bookBinder.start() rejected.
StartReject ==
    /\ bindPc = "starting"
    /\ PipelineFails("BinderStartError")

\* bookBinder.start() resolved: #bookBinder is set and the pipeline's promise
\* fulfils; what waits on it runs later, each in a microtask of its own.
StartResolve ==
    /\ bindPc = "starting"
    /\ bindPc' = "bound"
    /\ bookBinder' = "binder"
    /\ bookBinderPromise' = IF strategy = "pump" THEN "fulfilled"
                            ELSE bookBinderPromise
    /\ UNCHANGED <<metaVars, binderEvt, panelVars, appended>>
    /\ UNCHANGED <<source, arrayBuffer, finishedBinding, finishedLoading,
                   needsLoading, pages, startedBinding, totalPages, bindErr,
                   binderFed, binderTransfers, binderBudget, strategy, loadPc,
                   loadPromise, fetchMode, pumpQueue, pumpListening, pumpLog,
                   obsVars>>

\* loadFromFetch goes on after `await this.#startBookBinding(...)` fulfilled:
\* to the loop over the next chunks, or straight to the end of the loader.
FetchBound ==
    /\ strategy = "fetch" /\ loadPc = "awaitBind"
    /\ bindPc = "bound"
    /\ IF fetchMode = "chunkByChunk"
       THEN /\ loadPc' = "reading"
            /\ UNCHANGED <<finishedLoading, events, loadPromise>>
       ELSE /\ finishedLoading' = TRUE
            /\ events' = Append(events, LoadingComplete)
            /\ loadPromise' = Resolved
            /\ loadPc' = "done"
    /\ UNCHANGED <<metaVars, binderEvt, panelVars, appended>>
    /\ UNCHANGED <<source, arrayBuffer, bookBinder, finishedBinding, needsLoading,
                   pages, startedBinding, totalPages, bindVars, strategy, fetchMode,
                   bookBinderPromise, pumpQueue, pumpListening, pumpLog,
                   delivered, processed, lastCall>>

\* The awaited pipeline rejected: loadFromFetch rejects with its error.
FetchBindFailed ==
    /\ strategy = "fetch" /\ loadPc = "awaitBind"
    /\ bindPc = "failed"
    /\ loadPromise' = Rejected(bindErr)
    /\ loadPc' = "done"
    /\ UNCHANGED <<metaVars, binderEvt, panelVars, appended>>
    /\ UNCHANGED <<bookVars, bindVars, strategy, fetchMode, bookBinderPromise,
                   pumpQueue, pumpListening, pumpLog, obsVars>>

\* ------------------------------------------ BookBinder events, re-sourced

\* BookEventType.BINDING_COMPLETE
BinderBindingComplete ==
    /\ ListenersRegistered
    /\ binderBudget > 0
    /\ binderBudget' = binderBudget - 1
    /\ UNCHANGED <<panelVars, appended>>
    /\ binderEvt' = BindingComplete
    /\ finishedBinding' = TRUE
    /\ events' = Append(events, BindingComplete)
    /\ UNCHANGED metaVars
    /\ UNCHANGED <<source, arrayBuffer, bookBinder, finishedLoading, needsLoading,
                   pages, startedBinding, totalPages, bindPc, bindErr, binderFed,
                   binderTransfers, loadVars, delivered, processed, lastCall>>

\* Mutant: the extracted page is put in front of #pages.
BinderPageExtractedInFront ==
    /\ ListenersRegistered
    /\ binderBudget > 0
    /\ binderBudget' = binderBudget - 1
    /\ UNCHANGED <<panelVars, appended>>
    /\ \E page \in PageSet, pageNum \in 1..MaxPageNum :
         /\ binderEvt' = Evt("page-extracted", page, pageNum)
         /\ pages' = <<page>> \o pages
         /\ events' = Append(events, Evt("page-extracted", page, pageNum))
    /\ UNCHANGED metaVars
    /\ UNCHANGED <<source, arrayBuffer, bookBinder, finishedBinding, finishedLoading,
                   needsLoading, startedBinding, totalPages, bindPc, bindErr,
                   binderFed, binderTransfers, loadVars, delivered, processed,
                   lastCall>>

\* Mutant: the re-sourced event carries the Book's own count of pages.
BinderPageExtractedRenumbered ==
    /\ ListenersRegistered
    /\ binderBudget > 0
    /\ binderBudget' = binderBudget - 1
    /\ UNCHANGED <<panelVars, appended>>
    /\ \E page \in PageSet, pageNum \in 1..MaxPageNum :
         /\ binderEvt' = Evt("page-extracted", page, pageNum)
         /\ pages' = Append(pages, page)
         /\ events' = Append(events, Evt("page-extracted", page, Len(pages) + 1))
    /\ UNCHANGED metaVars
    /\ UNCHANGED <<source, arrayBuffer, bookBinder, finishedBinding, finishedLoading,
                   needsLoading, startedBinding, totalPages, bindPc, bindErr,
                   binderFed, binderTransfers, loadVars, delivered, processed,
                   lastCall>>

\* BookEventType.PAGE_EXTRACTED(page, pageNum): the page is pushed, the event
\* re-sourced with the page and the pageNum it came with.
BinderPageExtracted ==
    /\ ListenersRegistered
    /\ binderBudget > 0
    /\ binderBudget' = binderBudget - 1
    /\ UNCHANGED <<panelVars, appended>>
    /\ \E page \in PageSet, pageNum \in 1..MaxPageNum :
         /\ binderEvt' = Evt("page-extracted", page, pageNum)
         /\ pages' = Append(pages, page)
         /\ events' = Append(events, Evt("page-extracted", page, pageNum))
    /\ UNCHANGED metaVars
    /\ UNCHANGED <<source, arrayBuffer, bookBinder, finishedBinding, finishedLoading,
                   needsLoading, startedBinding, totalPages, bindPc, bindErr,
                   binderFed, binderTransfers, loadVars, delivered, processed,
                   lastCall>>

\* Mutant: the PROGRESS listener assigns #totalPages without testing it.
BinderProgressUntested ==
    /\ ListenersRegistered
    /\ binderBudget > 0
    /\ binderBudget' = binderBudget - 1
    /\ UNCHANGED <<panelVars, appended>>
    /\ \E total \in 0..MaxTotal, message \in MessageSet :
         /\ binderEvt' = ProgressEvt(total, message)
         /\ totalPages' = total
         /\ events' = Append(events, ProgressEvt(total, message))
    /\ UNCHANGED metaVars
    /\ UNCHANGED <<source, arrayBuffer, bookBinder, finishedBinding, finishedLoading,
                   needsLoading, pages, startedBinding, bindPc, bindErr, binderFed,
                   binderTransfers, loadVars, delivered, processed, lastCall>>

\* BookEventType.PROGRESS(totalPages, message); totalPages 0: not provided.
BinderProgress ==
    /\ ListenersRegistered
    /\ binderBudget > 0
    /\ binderBudget' = binderBudget - 1
    /\ UNCHANGED <<panelVars, appended>>
    /\ \E total \in 0..MaxTotal, message \in MessageSet :
         /\ binderEvt' = ProgressEvt(total, message)
         /\ totalPages' = IF total # 0 THEN total ELSE totalPages
         /\ events' = Append(events, ProgressEvt(total, message))
    /\ UNCHANGED metaVars
    /\ UNCHANGED <<source, arrayBuffer, bookBinder, finishedBinding, finishedLoading,
                   needsLoading, pages, startedBinding, bindPc, bindErr, binderFed,
                   binderTransfers, loadVars, delivered, processed, lastCall>>

\* BookEventType.METADATA_XML_EXTRACTED(bookMetadata): the Book keeps the
\* record the event carries; no event is dispatched.
BinderMetadataXmlExtracted ==
    /\ ListenersRegistered
    /\ binderBudget > 0
    /\ binderBudget' = binderBudget - 1
    /\ UNCHANGED <<panelVars, appended>>
    /\ binderEvt' = Evt("metadata-xml-extracted", "", -1)
    /\ bookMetadata' = BinderRecord
    /\ IF BinderRecord \in DOMAIN metaHeap
       THEN metaHeap' = metaHeap
       ELSE \E v \in MetaValues \ {"empty"} :
                metaHeap' = BinderRecord :> v @@ metaHeap
    /\ UNCHANGED <<bookVars, bindPc, bindErr, binderFed, binderTransfers,
                   loadVars, obsVars, metaCalls, metaArg>>

\* The BookBinder changes what the record it built holds.
BinderMutates ==
    /\ BinderRecord \in DOMAIN metaHeap
    /\ \E v \in MetaValues \ {metaHeap[BinderRecord]} :
         metaHeap' = [metaHeap EXCEPT ![BinderRecord] = v]
    /\ UNCHANGED <<bookVars, bindVars, loadVars, obsVars,
                   bookMetadata, metaCalls, metaArg, binderEvt, panelVars, appended>>

\* ----------------------------------------------------------- metadata

\* Mutant: setMetadata keeps the caller's record instead of a copy of it.
setMetadataByReference(metadata) ==
    [bookMetadata |-> metadata, metaHeap |-> metaHeap]

\* BookMetadata.clone: the records that exist once `copy`, a new record that
\* holds what `metadata` holds at the time of the call, was created.
clone(metadata, copy) == copy :> metaHeap[metadata] @@ metaHeap

\* Book.setMetadata: #bookMetadata = metadata.clone().
setMetadata(metadata) ==
    LET copy == Ref("book", metaCalls + 1) IN
    [bookMetadata |-> copy, metaHeap |-> clone(metadata, copy)]

\* Book.getMetadata: the Book's live reference.
getMetadata == bookMetadata

\* What the record getMetadata() returns holds ("null": there is no record).
MetadataValue ==
    IF getMetadata = NullRef THEN "null" ELSE metaHeap[getMetadata]

\* The caller calls setMetadata() with one of its records.
SetMetadata ==
    /\ metaCalls < MaxSetMetadata
    /\ \E metadata \in CallerRecords :
         /\ bookMetadata' = setMetadata(metadata).bookMetadata
         /\ metaHeap' = setMetadata(metadata).metaHeap
         /\ metaArg' = metadata
    /\ metaCalls' = metaCalls + 1
    /\ UNCHANGED <<bookVars, bindVars, loadVars, obsVars, binderEvt, panelVars, appended>>

\* The caller changes what one of its own records holds.
CallerMutates ==
    /\ \E metadata \in CallerRecords :
         \E v \in MetaValues \ {metaHeap[metadata]} :
             metaHeap' = [metaHeap EXCEPT ![metadata] = v]
    /\ UNCHANGED <<bookVars, bindVars, loadVars, obsVars,
                   bookMetadata, metaCalls, metaArg, binderEvt, panelVars, appended>>

\* ------------------------------------------------------------ queries

\* Book.getPage: "null", "undefined" (a hole past the end of #pages) or a page.
getPage(i) ==
    LET numPages == IF totalPages # 0 THEN totalPages ELSE Len(pages) IN
    IF i < 0 \/ i >= numPages THEN "null"
    ELSE IF i < Len(pages) THEN pages[i + 1]
    ELSE "undefined"

\* The getters the Book delegates to its BookBinder.
Queries == {"getMIMEType", "getLoadingPercentage", "getUnarchivingPercentage",
            "getLayoutPercentage"}

\* What the BookBinder's getter of that name returns.
BinderValue(op) == "bookBinder." \o op \o "()"

\* Book.getMIMEType: throws while #bookBinder is not set.
getMIMEType ==
    IF bookBinder = "null" THEN "NotBoundError" ELSE BinderValue("getMIMEType")

\* Book.getLoadingPercentage and its two siblings: 0 while #bookBinder is not set.
getPercentage(op) ==
    IF bookBinder = "null" THEN "0" ELSE BinderValue(op)

GetMIMEType ==
    /\ lastCall' = [op |-> "getMIMEType", outcome |-> getMIMEType]
    /\ UNCHANGED <<bookVars, bindVars, loadVars, delivered, processed, events,
                   metaVars, binderEvt, panelVars, appended>>

GetLoadingPercentage ==
    /\ lastCall' = [op |-> "getLoadingPercentage", outcome |-> getPercentage("getLoadingPercentage")]
    /\ UNCHANGED <<bookVars, bindVars, loadVars, delivered, processed, events,
                   metaVars, binderEvt, panelVars, appended>>

GetUnarchivingPercentage ==
    /\ lastCall' = [op |-> "getUnarchivingPercentage", outcome |-> getPercentage("getUnarchivingPercentage")]
    /\ UNCHANGED <<bookVars, bindVars, loadVars, delivered, processed, events,
                   metaVars, binderEvt, panelVars, appended>>

GetLayoutPercentage ==
    /\ lastCall' = [op |-> "getLayoutPercentage", outcome |-> getPercentage("getLayoutPercentage")]
    /\ UNCHANGED <<bookVars, bindVars, loadVars, delivered, processed, events,
                   metaVars, binderEvt, panelVars, appended>>

getNumberOfPages == totalPages

getNumberOfPagesReady == Len(pages)

\* ------------------------------------------- the metadata query panel

QueryPanelState ==
    [EMPTY |-> 0, QUERYING |-> 1, DISPLAYING_RESULTS |-> 2, RESULT_CHOSEN |-> 3]

PanelStates == {QueryPanelState.EMPTY, QueryPanelState.QUERYING,
                QueryPanelState.DISPLAYING_RESULTS, QueryPanelState.RESULT_CHOSEN}

\* Everything but the panel: what the actions of the panel leave alone.
docVars == <<bookVars, bindVars, loadVars, obsVars, metaVars, binderEvt, appended>>

\* The panel as the constructor has it before its setState(EMPTY): the fields
\* are unset and the elements are as generateShadowDOM() wrote them.
ShadowDOM ==
    [state |-> -1,
     outputValue |-> Undefined,
     inputDisabled |-> FALSE,
     inputValue |-> "",
     formDisplay |-> "none",
     tableDisplay |-> "none",
     chosenDisplay |-> "none",
     footer |-> "No Results",
     tbody |-> <<>>,
     chosenLabel |-> "",
     cbValue |-> "",
     cbChecked |-> TRUE,
     unchooseListeners |-> 0]

\* Mutant: setState without the test for the state the panel is already in.
setStateUnguarded(p, newState) ==
    CASE newState = QueryPanelState.EMPTY ->
           [p EXCEPT !.state = newState,
                     !.outputValue = Undefined,
                     !.inputDisabled = FALSE,
                     !.inputValue = "",
                     !.formDisplay = "",
                     !.tableDisplay = "none",
                     !.chosenDisplay = "none"]
      [] newState = QueryPanelState.QUERYING ->
           [p EXCEPT !.state = newState,
                     !.outputValue = Undefined,
                     !.inputDisabled = TRUE,
                     !.tableDisplay = "",
                     !.footer = "Please wait",
                     !.chosenDisplay = "none"]
      [] newState = QueryPanelState.DISPLAYING_RESULTS ->
           [p EXCEPT !.state = newState,
                     !.outputValue = Undefined,
                     !.tableDisplay = "",
                     !.formDisplay = "",
                     !.inputDisabled = FALSE,
                     !.chosenDisplay = "none"]
      [] newState = QueryPanelState.RESULT_CHOSEN ->
           [p EXCEPT !.state = newState,
                     !.formDisplay = "none",
                     !.tableDisplay = "none",
                     !.chosenDisplay = "",
                     !.chosenLabel = StringOf(p.outputValue),
                     !.cbValue = StringOf(p.outputValue),
                     !.cbChecked = TRUE,
                     !.unchooseListeners = @ + 1]

\* MetadataQueryPanel.setState: nothing if the panel is in newState already,
\* else the state and what its case of the switch assigns.
setState(p, newState) ==
    IF p.state = newState THEN p
    ELSE CASE newState = QueryPanelState.EMPTY ->
                [p EXCEPT !.state = newState,
                          !.outputValue = Undefined,
                          !.inputDisabled = FALSE,
                          !.inputValue = "",
                          !.formDisplay = "",
                          !.tableDisplay = "none",
                          !.chosenDisplay = "none"]
           [] newState = QueryPanelState.QUERYING ->
                [p EXCEPT !.state = newState,
                          !.outputValue = Undefined,
                          !.inputDisabled = TRUE,
                          !.tableDisplay = "",
                          !.footer = "Please wait",
                          !.chosenDisplay = "none"]
           [] newState = QueryPanelState.DISPLAYING_RESULTS ->
                [p EXCEPT !.state = newState,
                          !.outputValue = Undefined,
                          !.tableDisplay = "",
                          !.formDisplay = "",
                          !.inputDisabled = FALSE,
                          !.chosenDisplay = "none"]
           [] newState = QueryPanelState.RESULT_CHOSEN ->
                [p EXCEPT !.state = newState,
                          !.formDisplay = "none",
                          !.tableDisplay = "none",
                          !.chosenDisplay = "",
                          !.chosenLabel = StringOf(p.outputValue),
                          !.cbValue = StringOf(p.outputValue),
                          !.cbChecked = TRUE,
                          !.unchooseListeners = @ + 1]

\* The panel once its constructor has returned.
PanelInit ==
    /\ panel = setState(ShadowDOM, QueryPanelState.EMPTY)
    /\ fetching = 0
    /\ parsing = 0
    /\ queryCalls = 0
    /\ panelCall = [op |-> "none", arg |-> -1]

\* The checkbox of the chosen result takes one more onUnchoose listener each
\* time the panel enters RESULT_CHOSEN from another state; the model stops at a
\* bound. A setState(RESULT_CHOSEN) in RESULT_CHOSEN adds none and is never
\* held back.
MayEnter(newState) ==
    (newState = QueryPanelState.RESULT_CHOSEN
        /\ panel.state # QueryPanelState.RESULT_CHOSEN) =>
        panel.unchooseListeners < MaxUnchooseListeners

\* A call of setState(newState) from outside the panel's own handlers.
SetState ==
    /\ \E newState \in PanelStates :
         /\ MayEnter(newState)
         /\ panel' = setState(panel, newState)
         /\ panelCall' = [op |-> "setState", arg |-> newState]
    /\ UNCHANGED <<fetching, parsing, queryCalls, docVars>>

\* onQueryChanged up to its first await: the input holds what the user typed
\* (what it held, if it is disabled), the panel goes to QUERYING and the
\* lookup is sent.
OnQueryChanged ==
    /\ queryCalls < MaxQueries
    /\ queryCalls' = queryCalls + 1
    /\ \E typed \in IF panel.inputDisabled THEN {panel.inputValue} ELSE QuerySet :
         panel' = setState([panel EXCEPT !.inputValue = typed],
                           QueryPanelState.QUERYING)
    /\ fetching' = fetching + 1
    /\ panelCall' = [op |-> "onQueryChanged", arg |-> -1]
    /\ UNCHANGED <<parsing, docVars>>

\* fetch(queryURL) rejected: onQueryChanged's promise rejects, nothing else
\* of it runs.
FetchRejects ==
    /\ fetching > 0
    /\ fetching' = fetching - 1
    /\ UNCHANGED <<panel, parsing, queryCalls, panelCall, docVars>>

\* fetch(queryURL) resolved: onQueryChanged goes on to `await resp.json()`.
FetchResolves ==
    /\ fetching > 0
    /\ fetching' = fetching - 1
    /\ parsing' = parsing + 1
    /\ UNCHANGED <<panel, queryCalls, panelCall, docVars>>

\* resp.json() rejected (the body is not JSON).
JsonRejects ==
    /\ parsing > 0
    /\ parsing' = parsing - 1
    /\ UNCHANGED <<panel, fetching, queryCalls, panelCall, docVars>>

\* #createTableRow throws a TypeError on a result without a name
\* (tableCellValues[0].toLowerCase()): the rows the loop of onQueryChanged has
\* appended to the emptied table when it ends or is thrown out of.
createTableRows(results) ==
    LET named == {n \in 0..Len(results) : \A i \in 1..n : results[i].defined}
        last == CHOOSE n \in named : \A m \in named : m <= n
    IN [i \in 1..last |-> results[i].value]

\* resp.json() resolved: an error field other than 'OK' is thrown; otherwise
\* the table is emptied and a row appended per result, the footer written and
\* the panel goes to DISPLAYING_RESULTS. A result without a name ends the
\* method at its row: the rows before it are in the table, the footer and the
\* state are as they were.
JsonResolves ==
    /\ parsing > 0
    /\ parsing' = parsing - 1
    /\ \E error \in ErrorFields, results \in ResultLists :
         LET rows == createTableRows(results) IN
         panel' = IF error # "OK" THEN panel
                  ELSE IF Len(rows) < Len(results)
                  THEN [panel EXCEPT !.tbody = rows]
                  ELSE setState([panel EXCEPT !.tbody = rows,
                                              !.footer = "Displaying"],
                                QueryPanelState.DISPLAYING_RESULTS)
    /\ UNCHANGED <<fetching, queryCalls, panelCall, docVars>>

\* onResultChosen: the user ticked the checkbox of a row of the table.
OnResultChosen ==
    /\ \E row \in 1..Len(panel.tbody) :
         /\ MayEnter(QueryPanelState.RESULT_CHOSEN)
         /\ panel' = setState([panel EXCEPT !.outputValue = Str(panel.tbody[row])],
                              QueryPanelState.RESULT_CHOSEN)
         /\ panelCall' = [op |-> "onResultChosen", arg |-> row]
    /\ UNCHANGED <<fetching, parsing, queryCalls, docVars>>

\* onUnchoose
OnUnchoose ==
    /\ panel' = setState([panel EXCEPT !.outputValue = Undefined],
                         QueryPanelState.DISPLAYING_RESULTS)
    /\ panelCall' = [op |-> "onUnchoose", arg |-> -1]
    /\ UNCHANGED <<fetching, parsing, queryCalls, docVars>>

\* ------------------------------------------------------ specification

InitWith(budget) ==
    /\ source \in {Constructor(arg) : arg \in CtorArgs}
    /\ arrayBuffer = NullBuffer
    /\ bookBinder = "null"
    /\ finishedBinding = FALSE
    /\ finishedLoading = FALSE
    /\ needsLoading = TRUE
    /\ pages = <<>>
    /\ startedBinding = FALSE
    /\ totalPages = 0
    /\ bindPc = "none"
    /\ bindErr = "none"
    /\ binderFed = <<>>
    /\ binderTransfers = FALSE
    /\ binderBudget = budget
    /\ strategy = "none"
    /\ loadPc = "none"
    /\ loadPromise = [state |-> "none", reason |-> "none"]
    /\ fetchMode = "unread"
    /\ bookBinderPromise = "null"
    /\ pumpQueue = <<>>
    /\ pumpListening = FALSE
    /\ pumpLog = [n |-> 0, types |-> {},
                  last |-> [type |-> "none", cause |-> "none"]]
    /\ delivered = <<>>
    /\ processed = <<>>
    /\ events = <<>>
    /\ lastCall = [op |-> "none", outcome |-> "none"]
    /\ binderEvt = NoEvt
    /\ bookMetadata = NullRef
    /\ metaHeap = Ref("caller", 1) :> "tagsA" @@ Ref("caller", 2) :> "tagsB"
    /\ metaCalls = 0
    /\ metaArg = NullRef
    /\ appended = <<>>
    /\ PanelInit

Init == InitWith(MaxBinderEvents)

\* What the transports, the BookPump and the BookBinder factory can do.
Transport ==
    \/ XhrProgress
    \/ XhrLoad
    \/ XhrError
    \/ FetchResponse
    \/ FetchFail
    \/ FetchFirstBytes
    \/ FetchNoChunk
    \/ FetchNextChunk
    \/ FetchDone
    \/ FileHandleResolve
    \/ FileHandleReject
    \/ FileReaderLoad
    \/ FileReaderError
    \/ PumpData
    \/ PumpEnd
    \/ PumpError
    \/ PumpReactionRuns
    \/ FetchBound
    \/ FetchBindFailed
    \/ FactoryResolve
    \/ FactoryReject
    \/ StartResolve
    \/ StartReject

\* One load: the caller calls loaders until one is accepted; the transport,
\* the BookPump and the BookBinder then act in any order.
Next ==
    \/ needsLoading /\ Load
    \/ needsLoading /\ LoadFromXhr
    \/ needsLoading /\ LoadFromFetch
    \/ needsLoading /\ LoadFromFile
    \/ needsLoading /\ LoadFromArrayBuffer
    \/ needsLoading /\ LoadFromBookPump
    \/ Transport
    \/ BinderBindingComplete
    \/ BinderMetadataXmlExtracted
    \/ BinderPageExtracted
    \/ BinderProgress

Spec == Init /\ [][Next]_vars

\* Loader calls at any time, also while a load is under way, after it has
\* finished or failed, and after the BookBinder has finished binding.
CallNext ==
    \/ Load
    \/ LoadFromXhr
    \/ LoadFromFetch
    \/ LoadFromFile
    \/ LoadFromArrayBuffer
    \/ LoadFromBookPump
    \/ Transport
    \/ BinderBindingComplete

CallSpec == Init /\ [][CallNext]_vars

\* One load as in Spec, with a caller that also calls the public appendBytes()
\* itself, before, during or after the load.
AppendNext ==
    \/ AppendBytes
    \/ needsLoading /\ Load
    \/ needsLoading /\ LoadFromXhr
    \/ needsLoading /\ LoadFromFetch
    \/ needsLoading /\ LoadFromFile
    \/ needsLoading /\ LoadFromArrayBuffer
    \/ needsLoading /\ LoadFromBookPump
    \/ Transport

AppendSpec == Init /\ [][AppendNext]_vars

\* The BookBinder's events in depth, under the one-shot loader.
BinderInit == InitWith(MaxDeepBinderEvents)

BinderNext ==
    \/ LoadFromArrayBuffer
    \/ FactoryResolve
    \/ FactoryReject
    \/ StartResolve
    \/ StartReject
    \/ BinderBindingComplete
    \/ BinderMetadataXmlExtracted
    \/ BinderPageExtracted
    \/ BinderProgress

BinderSpec == BinderInit /\ [][BinderNext]_vars

\* The metadata record: the caller's setMetadata() calls and changes to its own
\* records, around the one-shot loader and the binding pipeline.
MetaNext ==
    \/ SetMetadata
    \/ CallerMutates
    \/ BinderMetadataXmlExtracted
    \/ BinderMutates
    \/ LoadFromArrayBuffer
    \/ FactoryResolve
    \/ FactoryReject
    \/ StartResolve
    \/ StartReject

MetaSpec == Init /\ [][MetaNext]_vars

\* The getters, asked at any point of the one-shot loader's binding pipeline.
QueryNext ==
    \/ GetMIMEType
    \/ GetLoadingPercentage
    \/ GetUnarchivingPercentage
    \/ GetLayoutPercentage
    \/ LoadFromArrayBuffer
    \/ FactoryResolve
    \/ FactoryReject
    \/ StartResolve
    \/ StartReject

QuerySpec == Init /\ [][QueryNext]_vars

\* The query panel: its methods called in any order, and the lookups it sent
\* answered or failing at any time.
PanelNext ==
    \/ SetState
    \/ OnQueryChanged
    \/ OnResultChosen
    \/ OnUnchoose
    \/ FetchRejects
    \/ FetchResolves
    \/ JsonRejects
    \/ JsonResolves

\* The panel beside a Book that was built without a source and is never loaded.
PanelStart == Init /\ source = Constructor("none")

PanelSpec == PanelStart /\ [][PanelNext]_vars

\* The query panel under fairness: a lookup that was sent is answered or
\* fails, and the body of an answer is parsed or fails to parse.
PanelLiveSpec ==
    /\ PanelStart /\ [][PanelNext]_vars
    /\ WF_vars(FetchRejects \/ FetchResolves)
    /\ WF_vars(JsonRejects \/ JsonResolves)

\* ============================================================ properties

RECURSIVE SumLen(_)
SumLen(chunks) ==
    IF chunks = <<>> THEN 0 ELSE Len(Head(chunks)) + SumLen(Tail(chunks))

EventTypes == {events[i].type : i \in 1..Len(events)}

PumpTypes == pumpLog.types

\* C1: once finishedLoading is true, the Book's bytes are the concatenation of
\* the chunks the source delivered, in delivery order, and as long as their
\* lengths add up to, whichever loader was used.
C1_BytesAreDeliveredChunks ==
    finishedLoading =>
        /\ ~arrayBuffer.isNull
        /\ arrayBuffer.bytes = Concat(delivered)
        /\ Len(arrayBuffer.bytes) = SumLen(delivered)

\* C2: in loadFromBookPump the BookBinder is handed the chunks in the order the
\* BookPump dispatched them: what it was handed is always a prefix of what was
\* dispatched, and once the pipeline's promise has fulfilled it is all of it
\* (the first chunk as initial bytes, the later ones in order, once their
\* reactions have run).
C2_PumpOrder ==
    strategy = "pump" =>
        /\ IsPrefix(binderFed, delivered)
        /\ (bookBinderPromise = "fulfilled" /\ pumpQueue = <<>>) =>
              binderFed = delivered

\* C2 witness: two different chunks were queued while the binder was being
\* created; now that it is bound the earlier one has been handed to it, behind
\* the first chunk, and the later one's reaction is the next to run.
C2_Witness ==
    /\ strategy = "pump"
    /\ bookBinderPromise = "fulfilled"
    /\ Len(delivered) = 3
    /\ delivered[2] # delivered[3]
    /\ binderFed = SubSeq(delivered, 1, 2)
    /\ Len(pumpQueue) = 1
    /\ pumpQueue[1].waited
    /\ pumpQueue[1].evt = DataEvt(delivered[3])

\* C3 (as claimed): once a load has started, every later loader call fails with
\* the invalid-state error and changes neither the bytes, the flags nor the
\* events.
C3_SecondCallInvalidState ==
    [][(~needsLoading /\ lastCall' # lastCall) =>
          /\ lastCall'.outcome = "InvalidStateError"
          /\ UNCHANGED <<arrayBuffer, needsLoading, startedBinding,
                         finishedLoading, finishedBinding, events>>]_vars

\* C3 (amended): once a load has started, every later loader call fails and
\* changes neither the bytes, the flags nor the events; the error is the
\* invalid-state error, except that load() on a Book without any source fails
\* with its no-source error.
C3_SecondCallFails ==
    [][(~needsLoading /\ lastCall' # lastCall) =>
          /\ lastCall'.outcome =
                IF lastCall'.op = "load" /\ Dispatch = "none"
                THEN "SourceMismatchError" ELSE "InvalidStateError"
          /\ UNCHANGED <<arrayBuffer, needsLoading, startedBinding,
                         finishedLoading, finishedBinding, events>>]_vars

\* C3 witness: a loader was called on a Book that had finished loading and was
\* refused.
C3_Witness ==
    /\ finishedLoading
    /\ lastCall.op = "loadFromArrayBuffer"
    /\ lastCall.outcome = "InvalidStateError"

\* C4: whenever the binding pipeline has failed, the promise the loader
\* returned is rejected (neither resolved nor left pending).
C4_PipelineFailureRejectsLoad ==
    bindPc = "failed" => loadPromise.state = "rejected"

\* C5: the Book's bytes are a copy of the chunks as they were delivered: a
\* BookBinder that transfers the buffers it is handed does not change them.
C5_BytesAreCopies ==
    ~arrayBuffer.isNull => arrayBuffer.bytes = Concat(processed)

\* C6: in loadFromBookPump, once the BookPump has dispatched END and the
\* pipeline has settled (no producer error, no BookBinder failure), the Book has
\* finished loading, BookLoadingComplete was dispatched and the promise resolved.
C6_EndFinishesLoading ==
    (/\ strategy = "pump"
     /\ "end" \in PumpTypes
     /\ "error" \notin PumpTypes
     /\ bindPc \in {"bound", "failed"}
     /\ bindErr \notin {"BinderCreationError", "BinderStartError"})
    => /\ finishedLoading
       /\ "loading-complete" \in EventTypes
       /\ loadPromise.state = "resolved"

\* C7: in loadFromBookPump a BOOKPUMP_ERROR dispatched while the promise is
\* pending rejects it with the event's cause, and it stays rejected with it.
C7_PumpErrorRejects ==
    [][/\ (/\ pumpLog'.n > pumpLog.n
           /\ pumpLog'.last.type = "error"
           /\ loadPromise.state = "pending")
          => loadPromise' = Rejected(pumpLog'.last.cause)
       /\ loadPromise.state = "rejected" => loadPromise' = loadPromise]_vars

\* C7 witness: the promise of loadFromBookPump was rejected with the cause of
\* the latest BOOKPUMP_ERROR.
C7_Witness ==
    /\ strategy = "pump"
    /\ pumpLog.last.type = "error"
    /\ loadPromise = Rejected(pumpLog.last.cause)

\* C8: BookLoadingStarted is the first event of every load: it precedes the
\* first byte of the Book and every loading-complete, progress and
\* page-extracted event.
C8_LoadingStartedFirst ==
    (\/ ~arrayBuffer.isNull
     \/ EventTypes \cap {"loading-complete", "progress", "page-extracted"} # {})
    => /\ events # <<>>
       /\ events[1] = LoadingStarted

\* C9: the four flags are latches: #needsLoading never returns to true,
\* #startedBinding, #finishedLoading and #finishedBinding never return to false.
C9_FlagsAreLatches ==
    [][/\ ~needsLoading => ~needsLoading'
       /\ startedBinding => startedBinding'
       /\ finishedLoading => finishedLoading'
       /\ finishedBinding => finishedBinding']_vars

\* C9 witness: a load has failed and a retry on the same Book was refused.
C9_Witness ==
    /\ loadPromise.state = "rejected"
    /\ ~needsLoading
    /\ lastCall.outcome = "InvalidStateError"

\* The indexes getPage is asked for.
QueryIndexes == -1..(MaxDeepBinderEvents + 1)

Max(a, b) == IF a >= b THEN a ELSE b

\* What getPage returns inside its range: the stored page, or undefined where
\* #pages has no element yet.
StoredPage(i) == IF i < Len(pages) THEN pages[i + 1] ELSE "undefined"

\* C10: getPage(i) is the page at index i for
\* 0 <= i < max(totalPages, pages.length) and not-found otherwise, in every
\* state of the Book.
C10_GetPageMax ==
    \A i \in QueryIndexes :
        getPage(i) = IF 0 <= i /\ i < Max(totalPages, Len(pages))
                     THEN StoredPage(i) ELSE "null"

\* A step in which the Book re-sourced a BookBinder event of the given type.
BinderEventStep(type) ==
    /\ Len(events') = Len(events) + 1
    /\ Last(events').type = type

\* C11: a PROGRESS event that reports a total T makes getNumberOfPages() T,
\* however few pages were extracted; one that provides no total leaves it as it
\* was; and nothing but a PROGRESS event changes it.
C11_ProgressSetsTotal ==
    [][IF BinderEventStep("progress")
       THEN getNumberOfPages' = IF Last(events').num # 0 THEN Last(events').num
                                ELSE getNumberOfPages
       ELSE getNumberOfPages' = getNumberOfPages]_vars

\* C11 witness: a total of 2 was reported with no page extracted, one page was
\* extracted, and a PROGRESS event without a total left the total at 2.
C11_Witness ==
    /\ Len(events) >= 3
    /\ Last(events).type = "progress"
    /\ Last(events).num = 0
    /\ getNumberOfPages = 2
    /\ getNumberOfPagesReady = 1

\* C12: setMetadata(m) stores a record of its own that holds what m held, and
\* a later change the caller makes to any of its records leaves what
\* getMetadata() returns as it was.
C12_SetMetadataCopies ==
    [][/\ metaCalls' = metaCalls + 1 =>
            /\ getMetadata' \notin CallerRecords
            /\ MetadataValue' = metaHeap[metaArg']
       /\ (\E m \in CallerRecords : metaHeap'[m] # metaHeap[m]) =>
            /\ getMetadata' = getMetadata
            /\ MetadataValue' = MetadataValue]_vars

\* C12 witness: setMetadata was called twice, the second time with another
\* record than the first, and the caller then changed that second record: the
\* Book's record still holds what was passed.
C12_Witness ==
    /\ metaCalls = 2
    /\ metaArg = Ref("caller", 2)
    /\ getMetadata = Ref("book", 2)
    /\ MetadataValue = "tagsB"
    /\ metaHeap[metaArg] = "tagsA"

\* A step that is a call of one of the four getters.
QueryStep == lastCall' # lastCall /\ lastCall'.op \in Queries

\* What a getter returns while the Book cannot reach a BookBinder.
Unbound(op) == IF op = "getMIMEType" THEN "NotBoundError" ELSE "0"

\* C13 (as claimed): getMIMEType() fails and the percentage getters return 0
\* before the BookBinder has been created, they return the BookBinder's value
\* whenever it has been; no getter changes the Book.
C13_QueriesOnceCreated ==
    [][QueryStep =>
          /\ lastCall'.outcome = IF ListenersRegistered
                                 THEN BinderValue(lastCall'.op)
                                 ELSE Unbound(lastCall'.op)
          /\ UNCHANGED <<bookVars, bindVars, loadVars, delivered, processed,
                         events, metaVars>>]_vars

\* C13 (amended): getMIMEType() fails and the percentage getters return 0
\* until the BookBinder has been created and its start() has resolved, they
\* return the BookBinder's value from then on; no getter changes the Book.
C13_QueriesOnceStarted ==
    [][QueryStep =>
          /\ lastCall'.outcome = IF bindPc = "bound"
                                 THEN BinderValue(lastCall'.op)
                                 ELSE Unbound(lastCall'.op)
          /\ UNCHANGED <<bookVars, bindVars, loadVars, delivered, processed,
                         events, metaVars>>]_vars

\* C13 witness: getMIMEType() was answered by the started BookBinder.
C13_Witness ==
    /\ bindPc = "bound"
    /\ lastCall = [op |-> "getMIMEType", outcome |-> BinderValue("getMIMEType")]

\* Whether the source the Book was constructed with is the one the strategy
\* loader works from; the one-shot and the BookPump loader are handed their
\* bytes, and work from no source of the Book.
SourceMatches(loader) ==
    CASE loader = "loadFromXhr" -> source.uri
      [] loader = "loadFromFetch" -> source.request
      [] loader = "loadFromFile" -> source.file \/ source.fileHandle
      [] OTHER -> source = Constructor("none")

\* C14: a strategy loader called while needsLoading is true on a Book whose
\* source is not the one that loader works from fails with the source-mismatch
\* error and changes nothing: needsLoading stays true, no event is dispatched,
\* the binding pipeline is not entered.
C14_MismatchRejected ==
    [][(/\ lastCall' # lastCall
        /\ lastCall'.op \in Loaders \ {"load"}
        /\ needsLoading
        /\ ~SourceMatches(lastCall'.op))
       => /\ lastCall'.outcome = "SourceMismatchError"
          /\ UNCHANGED <<bookVars, bindVars, loadVars, delivered, processed,
                         events, metaVars>>]_vars

\* C15: #finishedBinding is true exactly when the Book has re-sourced a
\* BINDING_COMPLETE event; handling one sets it and dispatches one
\* binding-complete event; no other step sets it, in particular none that sets
\* #finishedLoading or dispatches loading-complete.
C15_FinishedBindingOnEvent ==
    [][/\ finishedBinding' = ("binding-complete" \in {events'[i].type : i \in 1..Len(events')})
       /\ IF BinderEventStep("binding-complete")
          THEN finishedBinding' /\ events' = Append(events, BindingComplete)
          ELSE finishedBinding' = finishedBinding
       /\ (finishedLoading' # finishedLoading
             \/ (events' # events /\ Last(events') = LoadingComplete))
          => finishedBinding' = finishedBinding]_vars

\* C15 witness: binding-complete was observed after loading-complete.
C15_Witness ==
    /\ finishedLoading
    /\ finishedBinding
    /\ Len(events) >= 2
    /\ Last(events) = BindingComplete
    /\ LoadingComplete \in {events[i] : i \in 1..(Len(events) - 1)}

\* Number of bytes of the Book's byte sequence (none while there is no buffer).
ByteLength == IF arrayBuffer.isNull THEN 0 ELSE Len(arrayBuffer.bytes)

\* C16: the length of the Book's byte sequence never decreases, and once
\* #finishedLoading is true the byte sequence never changes again, whatever the
\* source delivers.
C16_BytesGrowThenFreeze ==
    [][/\ ByteLength' >= ByteLength
       /\ finishedLoading => arrayBuffer' = arrayBuffer]_vars

\* The totals the PROGRESS events re-sourced so far reported, in order.
ReportedTotals ==
    SelectSeq([i \in 1..Len(events) |->
                  IF events[i].type = "progress" THEN events[i].num ELSE 0],
              LAMBDA n : n # 0)

\* C17: once a PROGRESS event has reported a total, getNumberOfPages() never
\* decreases, whatever the later PROGRESS events report.
C17_TotalNeverDecreases ==
    [][ReportedTotals # <<>> => getNumberOfPages' >= getNumberOfPages]_vars

\* Whether the Book has handled a PROGRESS event.
ProgressSeen == \E i \in 1..Len(events) : events[i].type = "progress"

\* C18: in every state after the first PROGRESS event, getNumberOfPages() is
\* at least getNumberOfPagesReady().
C18_TotalCoversPages ==
    ProgressSeen => getNumberOfPages >= getNumberOfPagesReady

\* How many of #uri, #request, #file and #fileHandle are set.
SourcesSet == Cardinality({f \in DOMAIN source : source[f]})

\* C19 (as claimed): whatever the constructor was passed, exactly one of the
\* four source fields is set, and no operation changes them.
C19_ExactlyOneSource ==
    [](SourcesSet = 1) /\ [][source' = source]_vars

\* C19 (amended): a Book constructed with a URI, a Request, a File or a file
\* handle has exactly that one source field set, a Book constructed without a
\* source has none set, and no operation changes the four fields.
C19_AtMostOneSource ==
    /\ [](\E arg \in CtorArgs :
            /\ source = Constructor(arg)
            /\ SourcesSet = IF arg = "none" THEN 0 ELSE 1
            /\ arg = "string" => source.uri
            /\ arg = "Request" => source.request
            /\ arg = "File" => source.file
            /\ arg = "Handle" => source.fileHandle)
    /\ [][source' = source]_vars

\* C19 witness: a Book constructed with a file handle has loaded from it and
\* the handle is still its only source.
C19_Witness ==
    /\ finishedLoading
    /\ strategy = "file"
    /\ source.fileHandle
    /\ SourcesSet = 1

\* The strategy a loader leaves in charge once its call was accepted.
StrategyOf(loader) ==
    CASE loader = "loadFromXhr" -> "xhr"
      [] loader = "loadFromFetch" -> "fetch"
      [] loader = "loadFromFile" -> "file"
      [] loader = "loadFromArrayBuffer" -> "buffer"
      [] loader = "loadFromBookPump" -> "pump"

\* The strategy loader load() is to hand over to, by the source of the Book.
LoaderOfSource ==
    CASE source.request -> "loadFromFetch"
      [] source.uri -> "loadFromXhr"
      [] source.file \/ source.fileHandle -> "loadFromFile"
      [] OTHER -> "none"

\* C20: load() hands over to loadFromFetch on a Book with a Request, to
\* loadFromXhr on one with a URI and to loadFromFile on one with a File or a
\* file handle, and does what that loader does; on a Book without a source it
\* fails with the source-mismatch error and changes nothing (needsLoading, the
\* bytes and the events stay as they were).
C20_LoadDispatches ==
    [][(lastCall' # lastCall /\ lastCall'.op = "load") =>
          IF LoaderOfSource = "none"
          THEN /\ lastCall'.outcome = "SourceMismatchError"
               /\ UNCHANGED <<bookVars, bindVars, loadVars, delivered, processed,
                              events, metaVars>>
          ELSE IF needsLoading
          THEN /\ lastCall'.outcome = "accepted"
               /\ strategy' = StrategyOf(LoaderOfSource)
               /\ ~needsLoading'
          ELSE /\ lastCall'.outcome = "InvalidStateError"
               /\ UNCHANGED <<bookVars, bindVars, loadVars, delivered, processed,
                              events, metaVars>>]_vars

\* C20 witness: load() on a Book with a file handle was accepted and
\* loadFromFile is in charge.
C20_Witness ==
    /\ lastCall = [op |-> "load", outcome |-> "accepted"]
    /\ source.fileHandle
    /\ strategy = "file"
    /\ ~needsLoading

\* C21: in loadFromFetch and loadFromBookPump nothing past the first chunk is
\* processed (no byte appended, nothing more handed to the BookBinder,
\* #finishedLoading not set) until the BookBinder was created and its start()
\* has resolved; and every chunk is appended to the Book and handed to the
\* BookBinder in one step, and in the same order.
C21_SerializedBehindPipeline ==
    strategy \in {"fetch", "pump"} =>
        /\ (\/ Len(processed) > 1
            \/ Len(binderFed) > 1
            \/ finishedLoading
            \/ "loading-complete" \in EventTypes) => bindPc = "bound"
        /\ binderFed = processed

\* C21 witness: in loadFromBookPump a chunk and the termination signal waited
\* for the pipeline; it has completed, the chunk has been processed and the
\* termination signal's reaction is the next to run.
C21_Witness ==
    /\ strategy = "pump"
    /\ bindPc = "bound"
    /\ Len(processed) = 2
    /\ binderFed = processed
    /\ ~finishedLoading
    /\ Len(pumpQueue) = 1
    /\ pumpQueue[1].waited
    /\ pumpQueue[1].evt = EndEvt

\* C22: the binding pipeline is entered at most once: #startedBinding is set
\* by the one entry, createBookBinderAsync() is called by that entry only and
\* resolves at most once, and in every state in which binding has started a
\* further #startBookBinding call would fail with the double-bind error and
\* leave the flag, the bytes and the pipeline as they are.
C22_SingleBind ==
    [][/\ (startedBinding' /\ ~startedBinding) => bindPc = "none"
       /\ (bindPc' = "creating" /\ bindPc # "creating") =>
             (bindPc = "none" /\ ~startedBinding)
       /\ (bindPc' = "starting" /\ bindPc # "starting") => bindPc = "creating"
       /\ bindPc # "none" => (bindPc' # "none" /\ startedBinding)
       /\ startedBinding' =>
             \A ab \in ChunkSet :
                 LET r == startBookBinding(Ab(ab))' IN
                 /\ r.err = "DoubleBindError"
                 /\ r.startedBinding
                 /\ r.arrayBuffer = arrayBuffer'
                 /\ r.bindPc = bindPc'
                 /\ r.binderFed = binderFed']_vars

\* C22 witness: the BookBinder was created and started, and a loader called
\* afterwards was refused.
C22_Witness ==
    /\ startedBinding
    /\ bindPc = "bound"
    /\ lastCall.outcome = "InvalidStateError"
    /\ Len(binderFed) >= 1

\* C23: #startedBinding is true only once the BookBinder has been created: it
\* is false while createBookBinderAsync() is pending and after it has failed.
C23_StartedOnlyOnceCreated ==
    /\ startedBinding => ListenersRegistered
    /\ bindErr = "BinderCreationError" => ~startedBinding

\* C24: in every strategy #finishedLoading is set, loading-complete dispatched
\* and the load's promise resolved only after the BookBinder was created and
\* its start() has resolved.
C24_FinishedLoadingAfterStart ==
    (\/ finishedLoading
     \/ "loading-complete" \in EventTypes
     \/ loadPromise.state = "resolved") => bindPc = "bound"

\* C25: whenever the Book holds a byte, or a source has delivered one, or
\* binding has started, #needsLoading is false.
C25_NeedsLoadingFalseBeforeBytes ==
    (\/ ByteLength > 0
     \/ ~arrayBuffer.isNull
     \/ delivered # <<>>
     \/ startedBinding) => ~needsLoading

\* C25 witness: loadFromFile on a Book with a file handle has read the file:
\* the Book holds its bytes and #needsLoading is false.
C25_Witness ==
    /\ strategy = "file"
    /\ source.fileHandle
    /\ ByteLength > 0
    /\ startedBinding
    /\ ~needsLoading

\* C26: #pages is append-only: a PAGE_EXTRACTED event puts exactly its page at
\* the end of #pages, and no step removes, replaces or reorders an element.
C26_PagesAppendOnly ==
    [][/\ IsPrefix(pages, pages')
       /\ IF BinderEventStep("page-extracted")
          THEN pages' = Append(pages, Last(events').page)
          ELSE pages' = pages]_vars

\* C26 witness: three pages were extracted, not all the same, and #pages holds
\* them in the order of their events.
C26_Witness ==
    /\ Len(pages) = 3
    /\ pages[1] # pages[2]
    /\ pages = [i \in 1..3 |->
                  SelectSeq(events, LAMBDA e : e.type = "page-extracted")[i].page]

\* C27: the record the Book keeps when it handles METADATA_XML_EXTRACTED is a
\* copy of the one the event carries: it is not the BookBinder's record, and a
\* later change the BookBinder makes to its record leaves what getMetadata()
\* returns as it was.
C27_EventMetadataCopied ==
    [][/\ getMetadata' # BinderRecord
       /\ (/\ BinderRecord \in DOMAIN metaHeap
           /\ metaHeap'[BinderRecord] # metaHeap[BinderRecord]) =>
             MetadataValue' = MetadataValue]_vars

\* C28: re-sourcing is one-to-one. A BINDING_COMPLETE, PAGE_EXTRACTED or
\* PROGRESS event of the BookBinder makes the Book dispatch exactly one event
\* of the same type, carrying the page and pageNum, or the totalPages and
\* message, the BookBinder's event carried; METADATA_XML_EXTRACTED makes it
\* dispatch nothing and changes only #bookMetadata; and each listener leaves
\* every other field of the Book as it was.
C28_ResourcedOneToOne ==
    [][binderBudget' # binderBudget =>
         /\ UNCHANGED <<source, arrayBuffer, bookBinder, finishedLoading,
                        needsLoading, startedBinding>>
         /\ CASE binderEvt'.type = "binding-complete" ->
                   /\ events' = Append(events, BindingComplete)
                   /\ finishedBinding'
                   /\ UNCHANGED <<pages, totalPages, bookMetadata, metaHeap>>
              [] binderEvt'.type = "page-extracted" ->
                   /\ events' = Append(events, Evt("page-extracted",
                                                   binderEvt'.page, binderEvt'.num))
                   /\ pages' = Append(pages, binderEvt'.page)
                   /\ UNCHANGED <<finishedBinding, totalPages, bookMetadata,
                                  metaHeap>>
              [] binderEvt'.type = "progress" ->
                   /\ events' = Append(events, ProgressEvt(binderEvt'.num,
                                                           binderEvt'.message))
                   /\ totalPages' \in {totalPages, binderEvt'.num}
                   /\ UNCHANGED <<finishedBinding, pages, bookMetadata, metaHeap>>
              [] binderEvt'.type = "metadata-xml-extracted" ->
                   /\ events' = events
                   /\ UNCHANGED <<finishedBinding, pages, totalPages>>
              [] OTHER -> FALSE]_vars

\* C28 witness: the BookBinder extracted a page as pageNum 2 while the Book
\* held no page; the Book holds one page and its latest event is a
\* page-extracted event with that page and pageNum 2, after a progress event
\* and a METADATA_XML_EXTRACTED that dispatched nothing.
C28_Witness ==
    /\ binderEvt.type = "page-extracted"
    /\ binderEvt.num = 2
    /\ Len(pages) = 1
    /\ Last(events) = binderEvt
    /\ bookMetadata = BinderRecord
    /\ Len(SelectSeq(events, LAMBDA e : e.type = "progress")) = 1
    /\ binderBudget = 0

\* The BookPump has dispatched a BOOKPUMP_ERROR event.
PumpErrorSeen == "error" \in pumpLog.types

\* C29: in loadFromBookPump a BOOKPUMP_ERROR aborts the load: a DATA_RECEIVED
\* or END event the BookPump dispatches after it changes neither the Book's
\* bytes nor what the BookBinder was fed, does not set #finishedLoading and
\* dispatches no loading-complete event.
C29_ErrorAbortsPump ==
    [][(PumpErrorSeen /\ pumpLog' # pumpLog) =>
         /\ arrayBuffer' = arrayBuffer
         /\ binderFed' = binderFed
         /\ finishedLoading' = finishedLoading
         /\ events' = events]_vars

\* A loader call was accepted and the promise it returned has not settled.
CallInFlight == loadPromise.state = "pending"

\* What a loader call issued while another is in flight leaves alone.
NotDoubleStarted ==
    UNCHANGED <<bookVars, bindVars, loadVars, delivered, processed, events>>

\* C30 (as claimed): of two loader calls issued without waiting for the first
\* to settle, the first proceeds and the second fails with the invalid-state
\* error and starts nothing: #needsLoading is false from before the first
\* suspension point of every loader.
C30_SecondCallInvalidState ==
    /\ [](CallInFlight => ~needsLoading)
    /\ [][(CallInFlight /\ lastCall' # lastCall) =>
            /\ lastCall'.outcome = "InvalidStateError"
            /\ NotDoubleStarted]_vars

\* C30 (amended): of two loader calls issued without waiting for the first to
\* settle, the first proceeds and the second fails and starts nothing; the
\* second fails with the invalid-state error, except that load() on a Book
\* without any source fails with its no-source error.
C30_SecondCallFails ==
    /\ [](CallInFlight => ~needsLoading)
    /\ [][(CallInFlight /\ lastCall' # lastCall) =>
            /\ lastCall'.outcome =
                  IF lastCall'.op = "load" /\ Dispatch = "none"
                  THEN "SourceMismatchError" ELSE "InvalidStateError"
            /\ NotDoubleStarted]_vars

\* C30 witness: load() was called a second time on a Book with a file handle
\* while the first call was suspended in getFile(), and was refused.
C30_Witness ==
    /\ source.fileHandle
    /\ strategy = "file"
    /\ loadPc = "getFile"
    /\ CallInFlight
    /\ lastCall.op = "load"
    /\ lastCall.outcome = "InvalidStateError"

\* C31: once the binding pipeline has started, the bytes the Book handed to the
\* BookBinder (the initial buffer, then every appendBytes argument, in call
\* order) are the bytes the Book holds.
C31_BinderSeesBookBytes ==
    startedBinding => Concat(binderFed) = arrayBuffer.bytes

\* One load under fairness: a callback, event or promise reaction that is
\* ready to run is eventually run by the event loop.
LiveSpec == Init /\ [][Next]_vars /\ WF_vars(Transport)

\* The source of the load has signalled that it completed or failed.
SourceSignalled ==
    CASE strategy \in {"xhr", "fetch"} -> loadPc = "done"
      [] strategy = "file" -> loadPc \in {"done", "readFailed"}
      [] strategy = "pump" ->
           pumpLog.types \cap {"end", "error"} # {}
      [] OTHER -> TRUE

\* createBookBinderAsync() and bookBinder.start(), if called, have resolved or
\* rejected.
BinderSettled == bindPc \in {"none", "bound", "failed"}

\* C32: every loader call eventually settles: once the source has signalled
\* completion or failure and the BookBinder's factory and start() have
\* resolved or rejected, the promise the loader returned does not stay pending.
C32_LoadSettles ==
    (CallInFlight /\ SourceSignalled /\ BinderSettled) ~> ~CallInFlight

\* The number of loading-complete events the Book has dispatched.
LoadingCompleteCount ==
    Len(SelectSeq(events, LAMBDA e : e.type = LoadingComplete.type))

\* C33: the Book dispatches loading-complete at most once, and the promise a
\* loader returned is settled at most once, whatever the source dispatches.
C33_LoadingCompleteOnce ==
    /\ [](LoadingCompleteCount <= 1)
    /\ [][loadPromise.state \in {"resolved", "rejected"} =>
            loadPromise' = loadPromise]_vars

\* C34: the flags are ordered in every state: #finishedLoading and
\* #finishedBinding only with #startedBinding, #startedBinding only without
\* #needsLoading, and a page or a total number of pages only with
\* #startedBinding.
C34_FlagsOrdered ==
    /\ finishedLoading => startedBinding
    /\ finishedBinding => startedBinding
    /\ startedBinding => ~needsLoading
    /\ (pages # <<>> \/ totalPages # 0) => startedBinding

\* C34 witness: a load through a BookPump ran to its end: the Book finished
\* loading, started binding, needs no loading and holds a page.
C34_Witness ==
    /\ strategy = "pump"
    /\ finishedLoading
    /\ startedBinding
    /\ ~needsLoading
    /\ pages # <<>>

\* A step in which createBookBinderAsync() resolved.
FactoryResolved == bindPc = "creating" /\ bindPc' = "starting"

\* A step that is a call of setMetadata() or the handling of a
\* METADATA_XML_EXTRACTED event.
MetadataReplaced ==
    \/ metaCalls' # metaCalls
    \/ binderBudget' # binderBudget /\ binderEvt'.type = "metadata-xml-extracted"

\* C35: when createBookBinderAsync() resolves, #bookMetadata becomes a new
\* empty record whatever it was, so what setMetadata() stored before is gone;
\* what setMetadata() stores afterwards stays, record and contents, until the
\* next setMetadata() or METADATA_XML_EXTRACTED.
C35_PipelineResetsMetadata ==
    [][/\ FactoryResolved =>
            /\ getMetadata' # getMetadata
            /\ getMetadata' \notin DOMAIN metaHeap
            /\ MetadataValue' = createEmptyMetadata
       /\ (/\ ~FactoryResolved
           /\ ~MetadataReplaced
           /\ getMetadata.owner = "book") =>
            /\ getMetadata' = getMetadata
            /\ MetadataValue' = MetadataValue]_vars

\* C35 witness: setMetadata() was called before createBookBinderAsync()
\* resolved; the record it stored still exists and holds tags, and the Book's
\* record is the new empty one.
C35_Witness ==
    /\ metaCalls = 1
    /\ bindPc = "starting"
    /\ getMetadata = Ref("book", 0)
    /\ MetadataValue = createEmptyMetadata
    /\ Ref("book", 1) \in DOMAIN metaHeap
    /\ metaHeap[Ref("book", 1)] # createEmptyMetadata

\* A step that is a call of setState() from outside the panel's handlers.
SetStateStep ==
    /\ panelCall'.op = "setState"
    /\ UNCHANGED <<fetching, parsing, queryCalls>>

\* C36: in the query panel outputValue is defined only in RESULT_CHOSEN (in
\* EMPTY, QUERYING and DISPLAYING_RESULTS it is undefined), and setState(s)
\* called while the panel is in state s changes nothing.
C36_OutputOnlyWhenChosen ==
    /\ [](panel.state \in {QueryPanelState.EMPTY, QueryPanelState.QUERYING,
                            QueryPanelState.DISPLAYING_RESULTS} =>
             panel.outputValue = Undefined)
    /\ [][(SetStateStep /\ panelCall'.arg = panel.state) =>
             panel' = panel]_vars

\* C36 witness: a result was chosen and setState(RESULT_CHOSEN) was then
\* called on the panel in RESULT_CHOSEN: the output and the one listener are
\* as the choice left them.
C36_Witness ==
    /\ panelCall = [op |-> "setState", arg |-> QueryPanelState.RESULT_CHOSEN]
    /\ panel.state = QueryPanelState.RESULT_CHOSEN
    /\ panel.outputValue = Str("Marvel")
    /\ panel.cbValue = "Marvel"
    /\ panel.unchooseListeners = 1

\* C37: a panel that is in QUERYING, its input disabled, eventually leaves
\* QUERYING with the input enabled again, whether the lookup answers, answers
\* with an error field other than 'OK', or fails.
C37_QueryingEnds ==
    (panel.state = QueryPanelState.QUERYING /\ panel.inputDisabled)
        ~> (panel.state # QueryPanelState.QUERYING /\ ~panel.inputDisabled)

====
